---------------------------- MODULE Spec2Model ----------------------------
(***************************************************************************)
(* redis-streams-rs: option models, command encoder and reply decoder.     *)
(*                                                                         *)
(* The crate is a set of pure transforms: option builders (types.rs),      *)
(* command encoders (commands.rs) that turn arguments into an ordered      *)
(* token sequence, and FromRedisValue decoders (types.rs) that turn a      *)
(* generic wire Value into a typed reply.  The state machine below is the  *)
(* caller's view: one option value under construction, and the most        *)
(* recent call with its input and output.                                  *)
(*                                                                         *)
(* A byte string is a sequence of one-character strings, so formatting     *)
(* and parsing of numbers are computed digit by digit.                     *)
(***************************************************************************)
EXTENDS Integers, Sequences, FiniteSets, TLC

VARIABLES
    opts,    \* the option value under construction (NoOpts when there is none)
    hist,    \* the configuration calls made on opts since it was created
    call,    \* name of the most recent call
    input,   \* arguments of the most recent call
    output   \* what the most recent call returned or sent

vars == <<opts, hist, call, input, output>>

(***************************************************************************)
(* Bounds of the model.                                                    *)
(***************************************************************************)
MaxCalls == 3      \* configuration calls chained on one option value
MaxIds == 2        \* length of a key list / id list passed to a command
MaxKeys == 2       \* key rows of a read reply
MaxEntries == 2    \* entries under one key of a read reply
MaxRows == 2       \* rows of a range, claim, pending or info reply
MaxCount == 110    \* largest count of a trim policy

(***************************************************************************)
(* Byte strings.                                                           *)
(***************************************************************************)
Digits == <<"0", "1", "2", "3", "4", "5", "6", "7", "8", "9">>

DigitChar(d) == Digits[d + 1]

IsDigit(c) == \E d \in 0..9 : Digits[d + 1] = c

DigitVal(c) == CHOOSE d \in 0..9 : Digits[d + 1] = c

\* format!("{}", n) for an unsigned integer: decimal, no sign, no padding.
RECURSIVE Display(_)
Display(n) ==
    IF n < 10 THEN <<DigitChar(n)>>
    ELSE Display(n \div 10) \o <<DigitChar(n % 10)>>

\* Result values of the fallible operations.
Ok(x) == [st |-> "Ok", val |-> x]
Err == [st |-> "Err", val |-> "TypeError"]
Panic == [st |-> "Panic", val |-> "index out of bounds"]
IsOk(r) == r.st = "Ok"

RECURSIVE DigitsValue(_, _)
DigitsValue(s, acc) ==
    IF s = <<>> THEN acc
    ELSE DigitsValue(Tail(s), acc * 10 + DigitVal(Head(s)))

\* str::parse::<usize>(): an optional leading '+', then one or more decimal
\* digits (leading zeros allowed); anything else is an error.
ParseUsize(s) ==
    LET body == IF s # <<>> /\ Head(s) = "+" THEN Tail(s) ELSE s
    IN  IF body = <<>> \/ \E i \in 1..Len(body) : ~IsDigit(body[i])
        THEN Err
        ELSE Ok(DigitsValue(body, 0))

(***************************************************************************)
(* Keywords written by the encoders.                                       *)
(***************************************************************************)
MAXLEN == <<"M", "A", "X", "L", "E", "N">>
IDLE == <<"I", "D", "L", "E">>
TIME == <<"T", "I", "M", "E">>
RETRYCOUNT == <<"R", "E", "T", "R", "Y", "C", "O", "U", "N", "T">>
FORCE == <<"F", "O", "R", "C", "E">>
JUSTID == <<"J", "U", "S", "T", "I", "D">>
BLOCK == <<"B", "L", "O", "C", "K">>
COUNT == <<"C", "O", "U", "N", "T">>
GROUP == <<"G", "R", "O", "U", "P">>
STREAMS == <<"S", "T", "R", "E", "A", "M", "S">>
XREAD == <<"X", "R", "E", "A", "D">>
XREADGROUP == <<"X", "R", "E", "A", "D", "G", "R", "O", "U", "P">>
XCLAIM == <<"X", "C", "L", "A", "I", "M">>
XADD == <<"X", "A", "D", "D">>
XTRIM == <<"X", "T", "R", "I", "M">>

(***************************************************************************)
(* Inputs the callers draw from.                                           *)
(***************************************************************************)
NumInputs == {0, 105}
GroupInputs == {<<"g", "1">>, <<"g", "2">>}
ConsumerInputs == {<<"c", "1">>}
KeyInputs == {<<"k", "1">>, <<"k", "2">>}
Id11 == <<"1", "-", "1">>
Id41 == <<"4", "-", "1">>
IdInputs == {Id11, Id41}
IdList == <<Id11, Id41, Id11, Id41>>

SeqsUpTo(S, n) == UNION {[1..k -> S] : k \in 0..n}

(***************************************************************************)
(* Option<T>.                                                              *)
(***************************************************************************)
None == [some |-> FALSE, v |-> <<>>]
Some(x) == [some |-> TRUE, v |-> x]

(***************************************************************************)
(* StreamMaxlen and its ToRedisArgs.                                       *)
(***************************************************************************)
Equals(v) == [variant |-> "Equals", v |-> v]
Aprrox(v) == [variant |-> "Aprrox", v |-> v]
StreamMaxlenValues == {Equals(v) : v \in 0..MaxCount} \cup {Aprrox(v) : v \in 0..MaxCount}

\* Faulty variant: both variants written with the same mode character.
StreamMaxlen_write_redis_args_SameMode(self) ==
    <<MAXLEN, <<"~">>, Display(self.v)>>

StreamMaxlen_write_redis_args(self) ==
    LET ch == IF self.variant = "Equals" THEN <<"=">> ELSE <<"~">>
    IN  <<MAXLEN, ch, Display(self.v)>>

(***************************************************************************)
(* StreamClaimOptions: builder and ToRedisArgs.                            *)
(***************************************************************************)
StreamClaimOptions_default ==
    [type |-> "StreamClaimOptions",
     idle |-> None, time |-> None, retry |-> None,
     force |-> FALSE, justid |-> FALSE]

StreamClaimOptions_idle(self, ms) == [self EXCEPT !.idle = Some(ms)]
StreamClaimOptions_time(self, ms_time) == [self EXCEPT !.time = Some(ms_time)]
StreamClaimOptions_retry(self, count) == [self EXCEPT !.retry = Some(count)]
StreamClaimOptions_with_force(self) == [self EXCEPT !.force = TRUE]
StreamClaimOptions_with_justid(self) == [self EXCEPT !.justid = TRUE]

\* Faulty variant: TIME written before IDLE.
StreamClaimOptions_write_redis_args_TimeFirst(self) ==
    (IF self.time.some THEN <<TIME, Display(self.time.v)>> ELSE <<>>)
    \o (IF self.idle.some THEN <<IDLE, Display(self.idle.v)>> ELSE <<>>)
    \o (IF self.retry.some THEN <<RETRYCOUNT, Display(self.retry.v)>> ELSE <<>>)
    \o (IF self.force THEN <<FORCE>> ELSE <<>>)
    \o (IF self.justid THEN <<JUSTID>> ELSE <<>>)

StreamClaimOptions_write_redis_args(self) ==
    (IF self.idle.some THEN <<IDLE, Display(self.idle.v)>> ELSE <<>>)
    \o (IF self.time.some THEN <<TIME, Display(self.time.v)>> ELSE <<>>)
    \o (IF self.retry.some THEN <<RETRYCOUNT, Display(self.retry.v)>> ELSE <<>>)
    \o (IF self.force THEN <<FORCE>> ELSE <<>>)
    \o (IF self.justid THEN <<JUSTID>> ELSE <<>>)

(***************************************************************************)
(* StreamReadOptions: builder and ToRedisArgs.                             *)
(***************************************************************************)
StreamReadOptions_default ==
    [type |-> "StreamReadOptions",
     block |-> None, count |-> None, group |-> None]

\* Faulty variant: a blocking read counts as read-only.
StreamReadOptions_read_only_Blocking(self) == ~self.group.some \/ self.block.some

StreamReadOptions_read_only(self) == ~self.group.some

StreamReadOptions_block(self, ms) == [self EXCEPT !.block = Some(ms)]
StreamReadOptions_count(self, n) == [self EXCEPT !.count = Some(n)]

\* ToRedisArgs::to_redis_args of a string: the one argument holding its bytes.
to_redis_args(name) == <<name>>

StreamReadOptions_group(self, group_name, consumer_name) ==
    [self EXCEPT !.group =
        Some(<<to_redis_args(group_name), to_redis_args(consumer_name)>>)]

\* Faulty variant: COUNT written before BLOCK.
StreamReadOptions_write_redis_args_CountFirst(self) ==
    (IF self.count.some THEN <<COUNT, Display(self.count.v)>> ELSE <<>>)
    \o (IF self.block.some THEN <<BLOCK, Display(self.block.v)>> ELSE <<>>)
    \o (IF self.group.some
        THEN <<GROUP>> \o self.group.v[1] \o self.group.v[2]
        ELSE <<>>)

StreamReadOptions_write_redis_args(self) ==
    (IF self.block.some THEN <<BLOCK, Display(self.block.v)>> ELSE <<>>)
    \o (IF self.count.some THEN <<COUNT, Display(self.count.v)>> ELSE <<>>)
    \o (IF self.group.some
        THEN <<GROUP>> \o self.group.v[1] \o self.group.v[2]
        ELSE <<>>)

(***************************************************************************)
(* Command encoders (commands.rs): cmd(name).arg(..).arg(..)               *)
(***************************************************************************)
xclaim(key, group, consumer, min_idle_time, ids) ==
    <<XCLAIM, key, group, consumer, Display(min_idle_time)>> \o ids

xclaim_options(key, group, consumer, min_idle_time, ids, options) ==
    <<XCLAIM, key, group, consumer, Display(min_idle_time)>> \o ids
    \o StreamClaimOptions_write_redis_args(options)

xread_options(keys, ids, options) ==
    <<IF StreamReadOptions_read_only(options) THEN XREAD ELSE XREADGROUP>>
    \o StreamReadOptions_write_redis_args(options)
    \o <<STREAMS>> \o keys \o ids

\* Faulty variant: the trim policy written after the entry id.
xadd_maxlen_PolicyAfterId(key, maxlen, id, items) ==
    <<XADD, key, id>> \o StreamMaxlen_write_redis_args(maxlen) \o items

xadd_maxlen(key, maxlen, id, items) ==
    <<XADD, key>> \o StreamMaxlen_write_redis_args(maxlen) \o <<id>> \o items

xtrim(key, maxlen) ==
    <<XTRIM, key>> \o StreamMaxlen_write_redis_args(maxlen)

(***************************************************************************)
(* redis::Value, the generic wire value: nil, integer, bulk string (Data)  *)
(* and sequence (Bulk).                                                    *)
(***************************************************************************)
Value_Nil == [kind |-> "Nil", n |-> 0, s |-> <<>>, items |-> <<>>]
Value_Int(n) == [kind |-> "Int", n |-> n, s |-> <<>>, items |-> <<>>]
Value_Data(s) == [kind |-> "Data", n |-> 0, s |-> s, items |-> <<>>]
Value_Bulk(items) == [kind |-> "Bulk", n |-> 0, s |-> <<>>, items |-> items]

(***************************************************************************)
(* The conversions the decoders ask of from_redis_value, by target type.   *)
(* They follow the FromRedisValue implementations of the redis crate the   *)
(* source is written against (the one whose Value has Data and Bulk).      *)
(***************************************************************************)
\* String: a bulk string converts, every other kind is a type error.
String_from_redis_value(v) ==
    IF v.kind = "Data" THEN Ok(v.s) ELSE Err

\* usize: an integer converts, a bulk string is parsed, the rest is an error.
usize_from_redis_value(v) ==
    CASE v.kind = "Int" -> Ok(v.n)
      [] v.kind = "Data" -> ParseUsize(v.s)
      [] OTHER -> Err

\* Value: the wire value itself.
Value_from_redis_value(v) == Ok(v)

\* A HashMap is kept as a sequence of <<key, value>> pairs with distinct
\* keys: insert overwrites the value of a key already present.
HashMap_insert(m, k, x) ==
    IF \E i \in 1..Len(m) : m[i][1] = k
    THEN [i \in 1..Len(m) |-> IF m[i][1] = k THEN <<k, x>> ELSE m[i]]
    ELSE Append(m, <<k, x>>)

HashMap_keys(m) == {m[i][1] : i \in 1..Len(m)}

HashMap_get(m, k) == m[CHOOSE i \in 1..Len(m) : m[i][1] = k][2]

\* The map as the caller sees it: a function of its keys, without order.
HashMap_fn(m) == [k \in HashMap_keys(m) |-> HashMap_get(m, k)]

Reverse(s) == [i \in 1..Len(s) |-> s[Len(s) + 1 - i]]

\* HashMap::iter(): the order is unspecified.  rev chooses between the order
\* of insertion and its reverse.
HashMap_iter(m, rev) == IF rev THEN Reverse(m) ELSE m

RECURSIVE HashMap_collect(_, _, _, _)
HashMap_collect(ks, xs, i, acc) ==
    IF i > Len(ks) THEN acc
    ELSE HashMap_collect(ks, xs, i + 1, HashMap_insert(acc, ks[i].val, xs[i].val))

\* The target types the decoders name, as values: from_redis_value(T, v) is
\* from_redis_value::<T>(v).
T_String == [t |-> "String"]
T_usize == [t |-> "usize"]
T_Value == [t |-> "Value"]
T_Vec(E) == [t |-> "Vec", elem |-> E]
T_HashMap(K, V) == [t |-> "HashMap", key |-> K, value |-> V]
T_Tuple4(A, B, C, D) == [t |-> "Tuple4", elems |-> <<A, B, C, D>>]

RECURSIVE from_redis_value(_, _)

\* HashMap<K, V>: a sequence is read as alternating keys and values (a
\* trailing unpaired element is dropped); every other kind is a type error.
HashMap_from_redis_value(T, v) ==
    IF v.kind # "Bulk" THEN Err
    ELSE LET n == Len(v.items) \div 2
             ks == [i \in 1..n |-> from_redis_value(T.key, v.items[2 * i - 1])]
             xs == [i \in 1..n |-> from_redis_value(T.value, v.items[2 * i])]
         IN  IF \E i \in 1..n : ~IsOk(ks[i]) \/ ~IsOk(xs[i])
             THEN Err
             ELSE Ok(HashMap_collect(ks, xs, 1, <<>>))

\* The four conversions of a tuple of four.
Tuple4_from_items(T, items) ==
    LET rs == [i \in 1..4 |-> from_redis_value(T.elems[i], items[i])]
    IN  IF \A i \in 1..4 : IsOk(rs[i])
        THEN Ok([i \in 1..4 |-> rs[i].val])
        ELSE Err

\* (A, B, C, D): a sequence of exactly four elements, each converted to its
\* own type; anything else is a type error.
Tuple4_from_redis_value(T, v) ==
    IF v.kind = "Bulk" /\ Len(v.items) = 4
    THEN Tuple4_from_items(T, v.items)
    ELSE Err

\* The tuple's from_redis_values, used for Vec<(A, B, C, D)>: a flat sequence
\* is read four elements at a time; a length that is no multiple of four is a
\* type error.
Tuple4_from_redis_values(T, items) ==
    IF Len(items) % 4 # 0 THEN Err
    ELSE LET n == Len(items) \div 4
             rs == [i \in 1..n |->
                      Tuple4_from_items(T, SubSeq(items, 4 * i - 3, 4 * i))]
         IN  IF \E i \in 1..n : ~IsOk(rs[i])
             THEN Err
             ELSE Ok([i \in 1..n |-> rs[i].val])

\* The default from_redis_values: element by element.
from_redis_values(T, items) ==
    LET rs == [i \in 1..Len(items) |-> from_redis_value(T, items[i])]
    IN  IF \E i \in 1..Len(rs) : ~IsOk(rs[i])
        THEN Err
        ELSE Ok([i \in 1..Len(rs) |-> rs[i].val])

\* Vec<T>: a sequence converts through T's from_redis_values, nil is the
\* empty vector, a bulk string (T is not u8) and an integer are type errors.
Vec_from_redis_value(T, v) ==
    CASE v.kind = "Bulk" ->
            IF T.elem.t = "Tuple4"
            THEN Tuple4_from_redis_values(T.elem, v.items)
            ELSE from_redis_values(T.elem, v.items)
      [] v.kind = "Nil" -> Ok(<<>>)
      [] OTHER -> Err

from_redis_value(T, v) ==
    CASE T.t = "String" -> String_from_redis_value(v)
      [] T.t = "usize" -> usize_from_redis_value(v)
      [] T.t = "Value" -> Value_from_redis_value(v)
      [] T.t = "Vec" -> Vec_from_redis_value(T, v)
      [] T.t = "HashMap" -> HashMap_from_redis_value(T, v)
      [] T.t = "Tuple4" -> Tuple4_from_redis_value(T, v)

\* The types the decoders ask for.
T_FieldMap == T_HashMap(T_String, T_Value)
T_IdRows == T_Vec(T_HashMap(T_String, T_FieldMap))
T_KeyRows == T_Vec(T_HashMap(T_String, T_IdRows))
T_PendingParts == T_Tuple4(T_usize, T_String, T_String, T_Vec(T_Vec(T_String)))
T_PendingCountParts == T_Vec(T_Vec(T_Tuple4(T_String, T_String, T_usize, T_usize)))
T_FieldMaps == T_Vec(T_FieldMap)

RECURSIVE Flatten(_)
Flatten(ss) == IF ss = <<>> THEN <<>> ELSE Head(ss) \o Flatten(Tail(ss))

(***************************************************************************)
(* Field names of the info replies.                                        *)
(***************************************************************************)
F_last_generated_id == <<"l", "a", "s", "t", "-", "g", "e", "n", "e", "r", "a", "t", "e", "d", "-", "i", "d">>
F_radix_tree_nodes == <<"r", "a", "d", "i", "x", "-", "t", "r", "e", "e", "-", "n", "o", "d", "e", "s">>
F_groups == <<"g", "r", "o", "u", "p", "s">>
F_length == <<"l", "e", "n", "g", "t", "h">>
F_first_entry == <<"f", "i", "r", "s", "t", "-", "e", "n", "t", "r", "y">>
F_last_entry == <<"l", "a", "s", "t", "-", "e", "n", "t", "r", "y">>
F_name == <<"n", "a", "m", "e">>
F_pending == <<"p", "e", "n", "d", "i", "n", "g">>
F_idle == <<"i", "d", "l", "e">>
F_consumers == <<"c", "o", "n", "s", "u", "m", "e", "r", "s">>
F_last_delivered_id == <<"l", "a", "s", "t", "-", "d", "e", "l", "i", "v", "e", "r", "e", "d", "-", "i", "d">>

(***************************************************************************)
(* Typed reply model: the derived Default of each record.                  *)
(***************************************************************************)
StreamId_default == [id |-> <<>>, map |-> HashMap_fn(<<>>)]

StreamInfoConsumer_default == [name |-> <<>>, pending |-> 0, idle |-> 0]

StreamInfoGroup_default ==
    [name |-> <<>>, consumers |-> 0, pending |-> 0, last_delivered_id |-> <<>>]

StreamInfoStreamsReply_default ==
    [last_generated_id |-> <<>>, radix_tree_keys |-> 0, groups |-> 0, length |-> 0,
     first_entry |-> StreamId_default, last_entry |-> StreamId_default]

(***************************************************************************)
(* Reply decoders.                                                         *)
(***************************************************************************)
\* StreamId::from_bulk_value: a sequence gives its first element as id and
\* its second as field map; any other kind gives the default StreamId.
StreamId_from_bulk_value(v) ==
    IF v.kind = "Bulk"
    THEN LET id == IF Len(v.items) >= 1
                   THEN String_from_redis_value(v.items[1]) ELSE Ok(<<>>)
             map == IF Len(v.items) >= 2
                    THEN from_redis_value(T_FieldMap, v.items[2]) ELSE Ok(<<>>)
         IN  IF IsOk(id) /\ IsOk(map)
             THEN Ok([id |-> id.val, map |-> HashMap_fn(map.val)])
             ELSE Err
    ELSE Ok(StreamId_default)

\* StreamId::find: the value stored under key, if any.
StreamId_find(self, key) ==
    IF key \in DOMAIN self.map THEN Some(self.map[key]) ELSE None

\* Faulty variant: a value that does not convert gives the default of T.
StreamId_get_OrDefault(self, key, T) ==
    LET x == StreamId_find(self, key)
    IN  IF x.some
        THEN LET r == from_redis_value(T, x.v)
             IN  IF IsOk(r) THEN Some(r.val)
                 ELSE Some(IF T.t = "usize" THEN 0 ELSE <<>>)
        ELSE None

\* StreamId::get::<T>: the value found is converted, and .ok() turns a
\* failed conversion into None.
StreamId_get(self, key, T) ==
    LET x == StreamId_find(self, key)
    IN  IF x.some
        THEN LET r == from_redis_value(T, x.v)
             IN  IF IsOk(r) THEN Some(r.val) ELSE None
        ELSE None

StreamId_contains_key(self, key) == StreamId_find(self, key).some

StreamId_len(self) == Cardinality(DOMAIN self.map)

\* The loop over one id -> field-map mapping: every pair overwrites id and
\* map, so the last pair iterated stays; an empty mapping leaves the default.
StreamId_from_row(id_row, rev) ==
    LET it == HashMap_iter(id_row, rev)
    IN  IF Len(it) = 0 THEN StreamId_default
        ELSE [id |-> it[Len(it)][1], map |-> HashMap_fn(it[Len(it)][2])]

StreamKey_from_pair(pair, rev) ==
    [key |-> pair[1],
     ids |-> [j \in 1..Len(pair[2]) |-> StreamId_from_row(pair[2][j], rev)]]

\* Faulty variant: keys pushed at the front instead of the back.
StreamReadReply_from_redis_value_KeysReversed(v, rev) ==
    LET rows == from_redis_value(T_KeyRows, v)
    IN  IF ~IsOk(rows) THEN Err
        ELSE Ok([keys |-> Reverse(Flatten(
                [r \in 1..Len(rows.val) |->
                    LET it == HashMap_iter(rows.val[r], rev)
                    IN  [e \in 1..Len(it) |-> StreamKey_from_pair(it[e], rev)]]))])

StreamReadReply_from_redis_value(v, rev) ==
    LET rows == from_redis_value(T_KeyRows, v)
    IN  IF ~IsOk(rows) THEN Err
        ELSE Ok([keys |-> Flatten(
                [r \in 1..Len(rows.val) |->
                    LET it == HashMap_iter(rows.val[r], rev)
                    IN  [e \in 1..Len(it) |-> StreamKey_from_pair(it[e], rev)]])])

StreamRangeReply_from_redis_value(v, rev) ==
    LET rows == from_redis_value(T_IdRows, v)
    IN  IF ~IsOk(rows) THEN Err
        ELSE Ok([ids |-> [r \in 1..Len(rows.val) |->
                            StreamId_from_row(rows.val[r], rev)]])

StreamClaimReply_from_redis_value(v, rev) ==
    LET rows == from_redis_value(T_IdRows, v)
    IN  IF ~IsOk(rows) THEN Err
        ELSE Ok([ids |-> [r \in 1..Len(rows.val) |->
                            StreamId_from_row(rows.val[r], rev)]])

\* Faulty variant: the parsed count is also stored as idle time.
StreamInfoConsumer_from_pair_IdleSet(consumer) ==
    LET p == ParseUsize(consumer[2])
    IN  [StreamInfoConsumer_default EXCEPT
            !.name = consumer[1],
            !.pending = IF IsOk(p) THEN p.val ELSE 0,
            !.idle = IF IsOk(p) THEN p.val ELSE 0]

\* One [name, pending-count string] row of the pending summary: the count is
\* parsed, and a string that does not parse leaves pending at 0.
StreamInfoConsumer_from_pair(consumer) ==
    LET p == ParseUsize(consumer[2])
    IN  [StreamInfoConsumer_default EXCEPT
            !.name = consumer[1],
            !.pending = IF IsOk(p) THEN p.val ELSE 0]

\* consumer[0] and consumer[1] index the row: a row shorter than two panics.
StreamPendingReply_from_redis_value(v) ==
    LET parts == from_redis_value(T_PendingParts, v)
    IN  IF ~IsOk(parts) THEN Err
        ELSE IF \E i \in 1..Len(parts.val[4]) : Len(parts.val[4][i]) < 2 THEN Panic
        ELSE Ok([count |-> parts.val[1],
                 start_id |-> parts.val[2],
                 end_id |-> parts.val[3],
                 consumers |-> [i \in 1..Len(parts.val[4]) |->
                                  StreamInfoConsumer_from_pair(parts.val[4][i])]])

\* Faulty variant: every record takes its id from the first row.
StreamPendingCountReply_from_redis_value_FirstRowId(v) ==
    LET parts == from_redis_value(T_PendingCountParts, v)
    IN  IF ~IsOk(parts) THEN Err
        ELSE IF \E i \in 1..Len(parts.val) : Len(parts.val[i]) < 1 THEN Panic
        ELSE Ok([ids |-> [i \in 1..Len(parts.val) |->
                    [id |-> parts.val[1][1][1],
                     consumer |-> parts.val[i][1][2],
                     last_delivered_ms |-> parts.val[i][1][3],
                     times_delivered |-> parts.val[i][1][4]]]])

\* row[0] indexes the row's tuples: a row without a tuple panics.
StreamPendingCountReply_from_redis_value(v) ==
    LET parts == from_redis_value(T_PendingCountParts, v)
    IN  IF ~IsOk(parts) THEN Err
        ELSE IF \E i \in 1..Len(parts.val) : Len(parts.val[i]) < 1 THEN Panic
        ELSE Ok([ids |-> [i \in 1..Len(parts.val) |->
                    [id |-> parts.val[i][1][1],
                     consumer |-> parts.val[i][1][2],
                     last_delivered_ms |-> parts.val[i][1][3],
                     times_delivered |-> parts.val[i][1][4]]]])

\* if let Some(v) = map.get(key) { field = conv(v)? }
Field_or_default(map, key, T, dflt) ==
    IF key \in HashMap_keys(map)
    THEN from_redis_value(T, HashMap_get(map, key))
    ELSE Ok(dflt)

\* if let Some(v) = map.get(key) { field = StreamId::from_bulk_value(v)? }
Entry_or_default(map, key) ==
    IF key \in HashMap_keys(map)
    THEN StreamId_from_bulk_value(HashMap_get(map, key))
    ELSE Ok(StreamId_default)

\* Faulty variant: a mapping without "groups" is rejected.
StreamInfoStreamsReply_from_redis_value_GroupsRequired(v) ==
    LET map == from_redis_value(T_FieldMap, v)
    IN  IF ~IsOk(map) THEN Err
        ELSE IF F_groups \notin HashMap_keys(map.val) THEN Err
        ELSE LET lgi == Field_or_default(map.val, F_last_generated_id, T_String, <<>>)
                 rtk == Field_or_default(map.val, F_radix_tree_nodes, T_usize, 0)
                 grp == usize_from_redis_value(HashMap_get(map.val, F_groups))
                 len == Field_or_default(map.val, F_length, T_usize, 0)
                 fst == Entry_or_default(map.val, F_first_entry)
                 lst == Entry_or_default(map.val, F_last_entry)
             IN  IF IsOk(lgi) /\ IsOk(rtk) /\ IsOk(grp) /\ IsOk(len)
                    /\ IsOk(fst) /\ IsOk(lst)
                 THEN Ok([last_generated_id |-> lgi.val,
                          radix_tree_keys |-> rtk.val,
                          groups |-> grp.val,
                          length |-> len.val,
                          first_entry |-> fst.val,
                          last_entry |-> lst.val])
                 ELSE Err

StreamInfoStreamsReply_from_redis_value(v) ==
    LET map == from_redis_value(T_FieldMap, v)
    IN  IF ~IsOk(map) THEN Err
        ELSE LET lgi == Field_or_default(map.val, F_last_generated_id, T_String, <<>>)
                 rtk == Field_or_default(map.val, F_radix_tree_nodes, T_usize, 0)
                 grp == Field_or_default(map.val, F_groups, T_usize, 0)
                 len == Field_or_default(map.val, F_length, T_usize, 0)
                 fst == Entry_or_default(map.val, F_first_entry)
                 lst == Entry_or_default(map.val, F_last_entry)
             IN  IF IsOk(lgi) /\ IsOk(rtk) /\ IsOk(grp) /\ IsOk(len)
                    /\ IsOk(fst) /\ IsOk(lst)
                 THEN Ok([last_generated_id |-> lgi.val,
                          radix_tree_keys |-> rtk.val,
                          groups |-> grp.val,
                          length |-> len.val,
                          first_entry |-> fst.val,
                          last_entry |-> lst.val])
                 ELSE Err

StreamInfoConsumer_from_map(map) ==
    LET nm == Field_or_default(map, F_name, T_String, <<>>)
        pd == Field_or_default(map, F_pending, T_usize, 0)
        il == Field_or_default(map, F_idle, T_usize, 0)
    IN  IF IsOk(nm) /\ IsOk(pd) /\ IsOk(il)
        THEN Ok([name |-> nm.val, pending |-> pd.val, idle |-> il.val])
        ELSE Err

StreamInfoConsumersReply_from_redis_value(v) ==
    LET maps == from_redis_value(T_FieldMaps, v)
    IN  IF ~IsOk(maps) THEN Err
        ELSE LET cs == [i \in 1..Len(maps.val) |->
                          StreamInfoConsumer_from_map(maps.val[i])]
             IN  IF \E i \in 1..Len(cs) : ~IsOk(cs[i]) THEN Err
                 ELSE Ok([consumers |-> [i \in 1..Len(cs) |-> cs[i].val]])

StreamInfoGroup_from_map(map) ==
    LET nm == Field_or_default(map, F_name, T_String, <<>>)
        pd == Field_or_default(map, F_pending, T_usize, 0)
        cn == Field_or_default(map, F_consumers, T_usize, 0)
        ld == Field_or_default(map, F_last_delivered_id, T_String, <<>>)
    IN  IF IsOk(nm) /\ IsOk(pd) /\ IsOk(cn) /\ IsOk(ld)
        THEN Ok([name |-> nm.val, consumers |-> cn.val, pending |-> pd.val,
                 last_delivered_id |-> ld.val])
        ELSE Err

StreamInfoGroupsReply_from_redis_value(v) ==
    LET maps == from_redis_value(T_FieldMaps, v)
    IN  IF ~IsOk(maps) THEN Err
        ELSE LET gs == [i \in 1..Len(maps.val) |->
                          StreamInfoGroup_from_map(maps.val[i])]
             IN  IF \E i \in 1..Len(gs) : ~IsOk(gs[i]) THEN Err
                 ELSE Ok([groups |-> [i \in 1..Len(gs) |-> gs[i].val]])

(***************************************************************************)
(* Wire values the store can send back, by reply shape.  Each set holds    *)
(* the well-formed replies up to the bounds and ill-shaped ones.           *)
(***************************************************************************)
BulkOf(S, n) == {Value_Bulk(s) : s \in SeqsUpTo(S, n)}

WrongKindWires == {Value_Nil, Value_Int(4), Value_Data(<<"a">>)}

FieldName == <<"f">>
FieldMap0 == Value_Bulk(<<>>)
FieldMap1 == Value_Bulk(<<Value_Data(FieldName), Value_Data(<<"x">>)>>)
FieldMapDup ==
    Value_Bulk(<<Value_Data(FieldName), Value_Data(<<"x">>),
                 Value_Data(FieldName), Value_Int(2)>>)

EntryWire(id, fm) == Value_Bulk(<<Value_Data(id), fm>>)
EntryWires == {EntryWire(Id11, FieldMap1), EntryWire(Id41, FieldMap0)}
TwoIdRow ==
    Value_Bulk(<<Value_Data(Id11), FieldMap1, Value_Data(Id41), FieldMap0>>)

KeyRowWire(k, entries) == Value_Bulk(<<Value_Data(k), entries>>)
KeyRowWires ==
    {KeyRowWire(k, es) : k \in KeyInputs, es \in BulkOf(EntryWires, MaxEntries)}
TwoKeyRow ==
    Value_Bulk(<<Value_Data(<<"k", "1">>), Value_Bulk(<<EntryWire(Id11, FieldMap1)>>),
                 Value_Data(<<"k", "2">>), Value_Bulk(<<EntryWire(Id41, FieldMap0)>>)>>)

\* Read replies: sequences of single-key mappings, then irregular ones.
ReadReplyWires ==
    BulkOf(KeyRowWires, MaxKeys)
    \cup {Value_Bulk(<<TwoKeyRow>>),
          Value_Bulk(<<Value_Bulk(<<>>)>>),
          Value_Bulk(<<KeyRowWire(<<"k", "1">>, Value_Bulk(<<TwoIdRow>>))>>),
          Value_Bulk(<<KeyRowWire(<<"k", "1">>, Value_Bulk(<<Value_Bulk(<<>>)>>))>>),
          Value_Bulk(<<KeyRowWire(<<"k", "1">>, Value_Nil)>>),
          Value_Bulk(<<KeyRowWire(<<"k", "1">>, Value_Data(<<"a">>))>>),
          Value_Bulk(<<Value_Int(4)>>),
          Value_Bulk(<<Value_Nil>>)}
    \cup WrongKindWires

\* Range and claim replies: sequences of single-entry mappings.
RangeReplyWires ==
    BulkOf({EntryWire(id, fm) : id \in IdInputs, fm \in {FieldMap0, FieldMap1}}, MaxRows)
    \cup {Value_Bulk(<<TwoIdRow>>),
          Value_Bulk(<<Value_Bulk(<<>>)>>),
          Value_Bulk(<<EntryWire(Id11, FieldMapDup)>>),
          Value_Bulk(<<EntryWire(Id11, Value_Nil)>>),
          Value_Bulk(<<Value_Data(<<"a">>)>>),
          Value_Bulk(<<Value_Nil>>)}
    \cup WrongKindWires

\* Pending summary: (count, start id, end id, [[consumer, count string]]).
consumer_a == <<"c", "o", "n", "s", "u", "m", "e", "r", "-", "a">>
consumer_b == <<"c", "o", "n", "s", "u", "m", "e", "r", "-", "b">>
CountStrings == {<<"2">>, <<"1", "0">>, <<"x">>}
ConsumerRowWires ==
    {Value_Bulk(<<Value_Data(c), Value_Data(n)>>) :
        c \in {consumer_a, consumer_b}, n \in CountStrings}
    \cup {Value_Bulk(<<Value_Data(consumer_a)>>), Value_Bulk(<<>>), Value_Nil}
PendingWire(count, rows) ==
    Value_Bulk(<<count, Value_Data(Id11), Value_Data(Id41), rows>>)
PendingReplyWires ==
    {PendingWire(Value_Int(4), rows) : rows \in BulkOf(ConsumerRowWires, MaxRows)}
    \cup {PendingWire(Value_Data(<<"4">>), Value_Bulk(<<>>)),
          PendingWire(Value_Int(0), Value_Nil),
          PendingWire(Value_Int(1),
              Value_Bulk(<<Value_Bulk(<<Value_Data(consumer_a), Value_Data(<<"+", "1">>),
                                        Value_Data(<<"9">>)>>)>>)),
          PendingWire(Value_Int(1), Value_Bulk(<<Value_Data(consumer_a)>>)),
          PendingWire(Value_Nil, Value_Bulk(<<>>)),
          Value_Bulk(<<Value_Int(0), Value_Nil, Value_Nil, Value_Nil>>),
          Value_Bulk(<<Value_Int(4), Value_Data(Id11), Value_Data(Id41)>>),
          Value_Bulk(<<>>)}
    \cup WrongKindWires

\* Pending detail: rows of (id, consumer, idle-ms, delivery-count).
PendingRowWires ==
    {Value_Bulk(<<Value_Data(id), Value_Data(c), Value_Int(105), Value_Int(n)>>) :
        id \in IdInputs, c \in {consumer_a}, n \in {1, 2}}
    \cup {Value_Bulk(<<>>), Value_Nil}
PendingCountReplyWires ==
    BulkOf(PendingRowWires, MaxRows)
    \cup {Value_Bulk(<<Value_Bulk(<<Value_Data(Id11), Value_Data(consumer_a),
                                    Value_Int(105)>>)>>),
          Value_Bulk(<<Value_Bulk(<<Value_Data(Id11), Value_Data(consumer_a),
                                    Value_Int(105), Value_Int(1),
                                    Value_Data(Id41), Value_Data(consumer_b),
                                    Value_Int(7), Value_Data(<<"3">>)>>)>>),
          Value_Bulk(<<Value_Bulk(<<Value_Data(Id11), Value_Data(consumer_a),
                                    Value_Nil, Value_Int(1)>>)>>),
          Value_Bulk(<<Value_Int(4)>>)}
    \cup WrongKindWires

\* A field of a mapping reply: absent, or present with one of some values.
FieldWires(key, values) == {<<>>} \cup {<<Value_Data(key), x>> : x \in values}

other == <<"o", "t", "h", "e", "r">>

\* Entries to look fields up in: field f absent or holding a value of each
\* kind, field g absent or present, and f given twice.
FieldName2 == <<"g">>
LookupValues ==
    {Value_Data(<<"x">>), Value_Data(<<"1", "0">>), Value_Int(4), Value_Nil,
     Value_Bulk(<<>>)}
LookupFieldMaps ==
    {Value_Bulk(f \o g) :
        f \in FieldWires(FieldName, LookupValues),
        g \in FieldWires(FieldName2, {Value_Data(<<"x">>)})}
    \cup {FieldMapDup}
LookupEntryWires == {EntryWire(Id11, fm) : fm \in LookupFieldMaps}
LookupKeys == {FieldName, FieldName2, other}
LookupTypes == {T_String, T_usize, T_Value}

StreamInfoWires ==
    {Value_Bulk(f1 \o f2 \o f3 \o f4 \o f5 \o f6 \o f7) :
        f1 \in FieldWires(F_last_generated_id, {Value_Data(Id41), Value_Int(4)}),
        f2 \in FieldWires(F_radix_tree_nodes, {Value_Int(2)}),
        f3 \in FieldWires(F_groups, {Value_Int(1), Value_Data(<<"3">>), Value_Nil}),
        f4 \in FieldWires(F_length, {Value_Int(105)}),
        f5 \in FieldWires(F_first_entry,
                 {EntryWire(Id11, FieldMap1), Value_Nil, Value_Data(<<"a">>)}),
        f6 \in FieldWires(F_last_entry,
                 {EntryWire(Id41, FieldMap0), Value_Nil, Value_Int(4)}),
        f7 \in FieldWires(other, {Value_Int(9)})}
    \cup {Value_Bulk(<<Value_Data(F_first_entry), Value_Bulk(<<>>)>>),
          Value_Bulk(<<Value_Data(F_first_entry), Value_Bulk(<<Value_Data(Id11)>>)>>),
          Value_Bulk(<<Value_Data(F_first_entry), EntryWire(Id11, Value_Nil)>>),
          Value_Bulk(<<Value_Data(F_groups), Value_Int(1), Value_Data(F_groups), Value_Int(2)>>),
          Value_Bulk(<<Value_Int(4), Value_Int(4)>>)}
    \cup WrongKindWires

ConsumerMapWires ==
    {Value_Bulk(f1 \o f2 \o f3) :
        f1 \in FieldWires(F_name, {Value_Data(consumer_a)}),
        f2 \in FieldWires(F_pending, {Value_Int(2), Value_Nil}),
        f3 \in FieldWires(F_idle, {Value_Int(105)})}
InfoConsumersWires ==
    BulkOf(ConsumerMapWires, MaxRows)
    \cup {Value_Bulk(<<Value_Data(<<"a">>)>>), Value_Bulk(<<Value_Nil>>)}
    \cup WrongKindWires

GroupMapWires ==
    {Value_Bulk(f1 \o f2 \o f3 \o f4) :
        f1 \in FieldWires(F_name, {Value_Data(<<"g", "1">>)}),
        f2 \in FieldWires(F_consumers, {Value_Int(2)}),
        f3 \in FieldWires(F_pending, {Value_Int(4), Value_Bulk(<<>>)}),
        f4 \in FieldWires(F_last_delivered_id, {Value_Data(Id41)})}
InfoGroupsWires ==
    BulkOf(GroupMapWires, MaxRows)
    \cup {Value_Bulk(<<Value_Int(4)>>), Value_Bulk(<<Value_Nil>>)}
    \cup WrongKindWires

(***************************************************************************)
(* The state machine.                                                      *)
(***************************************************************************)
NoOpts == [type |-> "None"]
NoInput == [type |-> "None"]
NoOutput == [st |-> "None", val |-> <<>>]

\* One configuration call as remembered in hist.
Called(f, a, b) == [f |-> f, a |-> a, b |-> b]

Prefixes(s, n) == {SubSeq(s, 1, k) : k \in 0..n}

Init ==
    /\ opts = NoOpts
    /\ hist = <<>>
    /\ call = "init"
    /\ input = NoInput
    /\ output = NoOutput

\* A configuration call: opts is replaced by the updated value it returns.
Configure(type, f, a, b, updated) ==
    /\ opts.type = type
    /\ Len(hist) < MaxCalls
    /\ opts' = updated
    /\ hist' = Append(hist, Called(f, a, b))
    /\ call' = f
    /\ input' = [type |-> type, self |-> opts]
    /\ output' = Ok(updated)

\* A command takes its option value by move: the builder is gone afterwards.
Send(cmd, args, tokens) ==
    /\ opts' = NoOpts
    /\ hist' = <<>>
    /\ call' = cmd
    /\ input' = args
    /\ output' = Ok(tokens)

\* Nothing is under construction and no result is held.  Every call is a
\* pure function of its arguments, so calls that take no option value are
\* taken from here.
AtRest == opts = NoOpts /\ call = "init"

\* The caller lets go of the value the last call returned.
Drop ==
    /\ opts = NoOpts
    /\ call # "init"
    /\ call' = "init"
    /\ input' = NoInput
    /\ output' = NoOutput
    /\ UNCHANGED <<opts, hist>>

Decode(target, v, rev, result) ==
    /\ call' = target
    /\ input' = [type |-> "Value", v |-> v, rev |-> rev]
    /\ output' = result
    /\ UNCHANGED <<opts, hist>>

NewReadOptions ==
    /\ opts' = StreamReadOptions_default
    /\ hist' = <<>>
    /\ call' = "StreamReadOptions::default"
    /\ input' = NoInput
    /\ output' = Ok(StreamReadOptions_default)

NewClaimOptions ==
    /\ opts' = StreamClaimOptions_default
    /\ hist' = <<>>
    /\ call' = "StreamClaimOptions::default"
    /\ input' = NoInput
    /\ output' = Ok(StreamClaimOptions_default)

Block ==
    \E ms \in NumInputs :
        Configure("StreamReadOptions", "block", ms, 0, StreamReadOptions_block(opts, ms))

Count ==
    \E n \in NumInputs :
        Configure("StreamReadOptions", "count", n, 0, StreamReadOptions_count(opts, n))

Group ==
    \E g \in GroupInputs, c \in ConsumerInputs :
        Configure("StreamReadOptions", "group", g, c, StreamReadOptions_group(opts, g, c))

Idle ==
    \E ms \in NumInputs :
        Configure("StreamClaimOptions", "idle", ms, 0, StreamClaimOptions_idle(opts, ms))

Time ==
    \E ms \in NumInputs :
        Configure("StreamClaimOptions", "time", ms, 0, StreamClaimOptions_time(opts, ms))

Retry ==
    \E n \in NumInputs :
        Configure("StreamClaimOptions", "retry", n, 0, StreamClaimOptions_retry(opts, n))

WithForce ==
    Configure("StreamClaimOptions", "with_force", 0, 0, StreamClaimOptions_with_force(opts))

WithJustid ==
    Configure("StreamClaimOptions", "with_justid", 0, 0, StreamClaimOptions_with_justid(opts))

XReadOptions ==
    /\ opts.type = "StreamReadOptions"
    /\ \E keys \in SeqsUpTo(KeyInputs, MaxIds), ids \in Prefixes(IdList, MaxIds) :
          Send("xread_options",
               [type |-> "xread_options", keys |-> keys, ids |-> ids,
                options |-> opts, calls |-> hist],
               xread_options(keys, ids, opts))

XClaimOptions ==
    /\ opts.type = "StreamClaimOptions"
    /\ \E key \in KeyInputs, group \in GroupInputs, consumer \in ConsumerInputs,
          min_idle_time \in NumInputs, ids \in Prefixes(IdList, MaxIds) :
          Send("xclaim_options",
               [type |-> "xclaim_options", key |-> key, group |-> group,
                consumer |-> consumer, min_idle_time |-> min_idle_time, ids |-> ids,
                options |-> opts, calls |-> hist],
               xclaim_options(key, group, consumer, min_idle_time, ids, opts))

XClaim ==
    /\ AtRest
    /\ \E key \in KeyInputs, group \in GroupInputs, consumer \in ConsumerInputs,
          min_idle_time \in NumInputs, ids \in Prefixes(IdList, MaxIds) :
          Send("xclaim",
               [type |-> "xclaim", key |-> key, group |-> group,
                consumer |-> consumer, min_idle_time |-> min_idle_time, ids |-> ids],
               xclaim(key, group, consumer, min_idle_time, ids))

XAddMaxlen ==
    /\ AtRest
    /\ \E key \in KeyInputs, maxlen \in {Equals(0), Aprrox(105)}, id \in {<<"*">>, Id11},
          items \in {<<>>, <<FieldName, <<"x">>>>} :
          Send("xadd_maxlen",
               [type |-> "xadd_maxlen", key |-> key, maxlen |-> maxlen, id |-> id,
                items |-> items],
               xadd_maxlen(key, maxlen, id, items))

XTrim ==
    /\ AtRest
    /\ \E key \in KeyInputs, maxlen \in StreamMaxlenValues :
          Send("xtrim",
               [type |-> "xtrim", key |-> key, maxlen |-> maxlen],
               xtrim(key, maxlen))

\* A lookup on a decoded entry; the entry is the one wire decodes to.
Lookup(f, wire, key, T, result) ==
    /\ call' = f
    /\ input' = [type |-> "StreamId", wire |-> wire,
                 self |-> StreamId_from_bulk_value(wire).val, key |-> key, T |-> T]
    /\ output' = result
    /\ UNCHANGED <<opts, hist>>

StreamIdGet ==
    /\ AtRest
    /\ \E wire \in LookupEntryWires, key \in LookupKeys, T \in LookupTypes :
          Lookup("StreamId::get", wire, key, T,
                 StreamId_get(StreamId_from_bulk_value(wire).val, key, T))

StreamIdFind ==
    /\ AtRest
    /\ \E wire \in LookupEntryWires, key \in LookupKeys :
          Lookup("StreamId::find", wire, key, T_Value,
                 StreamId_find(StreamId_from_bulk_value(wire).val, key))

StreamIdContainsKey ==
    /\ AtRest
    /\ \E wire \in LookupEntryWires, key \in LookupKeys :
          Lookup("StreamId::contains_key", wire, key, T_Value,
                 StreamId_contains_key(StreamId_from_bulk_value(wire).val, key))

StreamIdLen ==
    /\ AtRest
    /\ \E wire \in LookupEntryWires :
          Lookup("StreamId::len", wire, <<>>, T_Value,
                 StreamId_len(StreamId_from_bulk_value(wire).val))

DecodeReadReply ==
    /\ AtRest
    /\ \E v \in ReadReplyWires, rev \in BOOLEAN :
        Decode("StreamReadReply", v, rev, StreamReadReply_from_redis_value(v, rev))

DecodeRangeReply ==
    /\ AtRest
    /\ \E v \in RangeReplyWires, rev \in BOOLEAN :
        Decode("StreamRangeReply", v, rev, StreamRangeReply_from_redis_value(v, rev))

DecodeClaimReply ==
    /\ AtRest
    /\ \E v \in RangeReplyWires, rev \in BOOLEAN :
        Decode("StreamClaimReply", v, rev, StreamClaimReply_from_redis_value(v, rev))

DecodePendingReply ==
    /\ AtRest
    /\ \E v \in PendingReplyWires :
        Decode("StreamPendingReply", v, FALSE, StreamPendingReply_from_redis_value(v))

DecodePendingCountReply ==
    /\ AtRest
    /\ \E v \in PendingCountReplyWires :
        Decode("StreamPendingCountReply", v, FALSE,
               StreamPendingCountReply_from_redis_value(v))

DecodeInfoStreamsReply ==
    /\ AtRest
    /\ \E v \in StreamInfoWires :
        Decode("StreamInfoStreamsReply", v, FALSE,
               StreamInfoStreamsReply_from_redis_value(v))

DecodeInfoConsumersReply ==
    /\ AtRest
    /\ \E v \in InfoConsumersWires :
        Decode("StreamInfoConsumersReply", v, FALSE,
               StreamInfoConsumersReply_from_redis_value(v))

DecodeInfoGroupsReply ==
    /\ AtRest
    /\ \E v \in InfoGroupsWires :
        Decode("StreamInfoGroupsReply", v, FALSE,
               StreamInfoGroupsReply_from_redis_value(v))

Next ==
    \/ NewReadOptions
    \/ NewClaimOptions
    \/ Block
    \/ Count
    \/ Group
    \/ Idle
    \/ Time
    \/ Retry
    \/ WithForce
    \/ WithJustid
    \/ XReadOptions
    \/ XClaimOptions
    \/ XClaim
    \/ XAddMaxlen
    \/ XTrim
    \/ DecodeReadReply
    \/ DecodeRangeReply
    \/ DecodeClaimReply
    \/ DecodePendingReply
    \/ DecodePendingCountReply
    \/ DecodeInfoStreamsReply
    \/ DecodeInfoConsumersReply
    \/ DecodeInfoGroupsReply
    \/ StreamIdGet
    \/ StreamIdFind
    \/ StreamIdContainsKey
    \/ StreamIdLen
    \/ Drop

Spec == Init /\ [][Next]_vars

(***************************************************************************)
(* Properties of the command encoder.                                      *)
(***************************************************************************)
HasCall(calls, f) == \E i \in 1..Len(calls) : calls[i].f = f

\* The last call of calls that set field f.
LastCall(calls, f) ==
    calls[CHOOSE i \in 1..Len(calls) :
            /\ calls[i].f = f
            /\ \A j \in (i + 1)..Len(calls) : calls[j].f # f]

\* The tokens a history of read-option calls is expected to serialize to.
ExpectedReadTokens(calls) ==
    (IF HasCall(calls, "block")
     THEN <<BLOCK, Display(LastCall(calls, "block").a)>> ELSE <<>>)
    \o (IF HasCall(calls, "count")
        THEN <<COUNT, Display(LastCall(calls, "count").a)>> ELSE <<>>)
    \o (IF HasCall(calls, "group")
        THEN <<GROUP, LastCall(calls, "group").a, LastCall(calls, "group").b>>
        ELSE <<>>)

\* The tokens a history of claim-option calls is expected to serialize to.
ExpectedClaimTokens(calls) ==
    (IF HasCall(calls, "idle")
     THEN <<IDLE, Display(LastCall(calls, "idle").a)>> ELSE <<>>)
    \o (IF HasCall(calls, "time")
        THEN <<TIME, Display(LastCall(calls, "time").a)>> ELSE <<>>)
    \o (IF HasCall(calls, "retry")
        THEN <<RETRYCOUNT, Display(LastCall(calls, "retry").a)>> ELSE <<>>)
    \o (IF HasCall(calls, "with_force") THEN <<FORCE>> ELSE <<>>)
    \o (IF HasCall(calls, "with_justid") THEN <<JUSTID>> ELSE <<>>)

\* C1: xread_options sends XREADGROUP exactly when group() was called on the
\* options, XREAD otherwise, and what follows the command name is the
\* serialized options, then STREAMS, then all keys, then all ids.
C1_ReadCommandName ==
    call = "xread_options" =>
        /\ Head(output.val) =
              IF HasCall(input.calls, "group") THEN XREADGROUP ELSE XREAD
        /\ Tail(output.val) =
              StreamReadOptions_write_redis_args(input.options)
              \o <<STREAMS>> \o input.keys \o input.ids

C1_Witness ==
    /\ call = "xread_options"
    /\ HasCall(input.calls, "group")
    /\ HasCall(input.calls, "block")
    /\ Len(input.keys) = 2
    /\ Len(input.ids) = 2
    /\ Head(output.val) = XREADGROUP

\* C8: the read options serialize only the fields that were set, in the
\* order BLOCK, COUNT, GROUP whatever the order of the calls, each with the
\* value of the last call that set it; options never configured give no token.
C8_ReadOptionsTokens ==
    call = "xread_options" =>
        LET expected == ExpectedReadTokens(input.calls)
        IN  /\ Len(output.val) >= Len(expected) + 2
            /\ SubSeq(output.val, 2, Len(expected) + 1) = expected
            /\ output.val[Len(expected) + 2] = STREAMS

C8_Witness ==
    /\ call = "xread_options"
    /\ Len(input.calls) = 3
    /\ input.calls[1].f = "count"
    /\ input.calls[2].f = "block"
    /\ input.calls[3].f = "count"
    /\ input.calls[1].a # input.calls[3].a
    /\ SubSeq(output.val, 2, 5) =
          <<BLOCK, Display(input.calls[2].a), COUNT, Display(input.calls[3].a)>>

\* C9: xclaim_options sends XCLAIM, key, group, consumer, min-idle and the ids,
\* then the claim options in the order IDLE, TIME, RETRYCOUNT, FORCE, JUSTID
\* whatever the order of the calls; with default options it sends what xclaim
\* sends.
C9_ClaimOptionsTokens ==
    call = "xclaim_options" =>
        /\ output.val =
              <<XCLAIM, input.key, input.group, input.consumer,
                Display(input.min_idle_time)>>
              \o input.ids \o ExpectedClaimTokens(input.calls)
        /\ input.calls = <<>> =>
              output.val = xclaim(input.key, input.group, input.consumer,
                                  input.min_idle_time, input.ids)

C9_Witness ==
    /\ call = "xclaim_options"
    /\ Len(input.calls) = 3
    /\ input.calls[1].f = "with_justid"
    /\ input.calls[2].f = "time"
    /\ input.calls[3].f = "idle"
    /\ Len(input.ids) = 2
    /\ SubSeq(output.val, 8, 12) =
          <<IDLE, Display(input.calls[3].a), TIME, Display(input.calls[2].a), JUSTID>>

\* Reading a trim policy back from its three tokens.
ParseMaxlen(tokens) ==
    [variant |-> IF tokens[2] = <<"=">> THEN "Equals" ELSE "Aprrox",
     v |-> ParseUsize(tokens[3]).val]

\* C10: a StreamMaxlen is written as exactly MAXLEN, the mode character
\* (= for Equals, ~ for Aprrox) and the decimal count, and reading the three
\* tokens back gives the variant and the count that were written.
C10_MaxlenRoundTrip ==
    call = "xtrim" =>
        LET tokens == SubSeq(output.val, 3, Len(output.val))
        IN  /\ Len(tokens) = 3
            /\ tokens[1] = MAXLEN
            /\ tokens[2] = IF input.maxlen.variant = "Equals" THEN <<"=">> ELSE <<"~">>
            /\ IsOk(ParseUsize(tokens[3]))
            /\ Head(tokens[3]) # "+"
            /\ Len(tokens[3]) > 1 => Head(tokens[3]) # "0"
            /\ ParseMaxlen(tokens) = input.maxlen

C10_Witness ==
    /\ call = "xtrim"
    /\ input.maxlen.variant = "Equals"
    /\ input.maxlen.v = 105
    /\ SubSeq(output.val, 3, 5) = <<MAXLEN, <<"=">>, <<"1", "0", "5">>>>

\* The three tokens of a trim policy.
PolicyTokens(maxlen) ==
    <<MAXLEN, IF maxlen.variant = "Equals" THEN <<"=">> ELSE <<"~">>,
      Display(maxlen.v)>>

\* C11: xadd_maxlen writes XADD, the key, the three tokens of the trim
\* policy, the entry id and then the field/value items; xtrim writes XTRIM,
\* the key and the same three tokens; for one StreamMaxlen value the policy
\* tokens of the two commands are the same.
C11_MaxlenPosition ==
    /\ call = "xadd_maxlen" =>
          /\ output.val = <<XADD, input.key>> \o PolicyTokens(input.maxlen)
                              \o <<input.id>> \o input.items
          /\ SubSeq(output.val, 3, 5) =
                SubSeq(xtrim(input.key, input.maxlen), 3, 5)
    /\ call = "xtrim" =>
          /\ output.val = <<XTRIM, input.key>> \o PolicyTokens(input.maxlen)
          /\ \A id \in {<<"*">>, Id11} :
                SubSeq(output.val, 3, 5) =
                  SubSeq(xadd_maxlen(input.key, input.maxlen, id, <<>>), 3, 5)

C11_Witness ==
    /\ call = "xadd_maxlen"
    /\ input.maxlen = Aprrox(105)
    /\ input.id = Id11
    /\ input.items # <<>>
    /\ SubSeq(output.val, 3, 6) = <<MAXLEN, <<"~">>, <<"1", "0", "5">>, Id11>>
    /\ Len(output.val) = 8

(***************************************************************************)
(* Properties of the reply decoder.                                        *)
(***************************************************************************)
DecodeTargets ==
    {"StreamReadReply", "StreamRangeReply", "StreamClaimReply",
     "StreamPendingReply", "StreamPendingCountReply", "StreamInfoStreamsReply",
     "StreamInfoConsumersReply", "StreamInfoGroupsReply"}

IsData(v) == v.kind = "Data"
IsBulk(v) == v.kind = "Bulk"

\* field -> value pairs: an even number of elements, every field a string.
IsFieldMapWire(v) ==
    /\ IsBulk(v)
    /\ Len(v.items) % 2 = 0
    /\ \A i \in 1..Len(v.items) : i % 2 = 1 => IsData(v.items[i])

\* A single-entry mapping id -> field map.
IsEntryWire(v) ==
    /\ IsBulk(v)
    /\ Len(v.items) = 2
    /\ IsData(v.items[1])
    /\ IsFieldMapWire(v.items[2])

\* A single-key mapping key -> sequence of single-entry mappings.
IsKeyRowWire(v) ==
    /\ IsBulk(v)
    /\ Len(v.items) = 2
    /\ IsData(v.items[1])
    /\ IsBulk(v.items[2])
    /\ \A j \in 1..Len(v.items[2].items) : IsEntryWire(v.items[2].items[j])

\* The fields of a field map on the wire.
WireFields(fm) == {fm.items[i].s : i \in {k \in 1..Len(fm.items) : k % 2 = 1}}

\* The value the wire mapping v gives to field key (the last one wins).
HasWireField(v, key) ==
    \E i \in 1..(Len(v.items) \div 2) : v.items[2 * i - 1] = Value_Data(key)

WireField(v, key) ==
    v.items[2 * (CHOOSE i \in 1..(Len(v.items) \div 2) :
                    /\ v.items[2 * i - 1] = Value_Data(key)
                    /\ \A j \in (i + 1)..(Len(v.items) \div 2) :
                          v.items[2 * j - 1] # Value_Data(key))]

\* A decoded entry holds the id, the fields and the values of its wire mapping.
EntryMatches(rec, wire) ==
    /\ rec.id = wire.items[1].s
    /\ DOMAIN rec.map = WireFields(wire.items[2])
    /\ \A f \in DOMAIN rec.map : rec.map[f] = WireField(wire.items[2], f)

\* C2: a read reply of N single-key mappings decodes to N StreamKey records
\* in wire order, each with its entries in wire order and in the same number;
\* a range or claim reply of M single-entry mappings decodes to M StreamId
\* records in wire order.
C2_OneRecordPerWireElement ==
    /\ (/\ call = "StreamReadReply"
        /\ IsBulk(input.v)
        /\ \A i \in 1..Len(input.v.items) : IsKeyRowWire(input.v.items[i]))
       => /\ IsOk(output)
          /\ Len(output.val.keys) = Len(input.v.items)
          /\ \A i \in 1..Len(input.v.items) :
                LET row == input.v.items[i]
                    k == output.val.keys[i]
                IN  /\ k.key = row.items[1].s
                    /\ Len(k.ids) = Len(row.items[2].items)
                    /\ \A j \in 1..Len(k.ids) :
                          EntryMatches(k.ids[j], row.items[2].items[j])
    /\ (/\ call \in {"StreamRangeReply", "StreamClaimReply"}
        /\ IsBulk(input.v)
        /\ \A i \in 1..Len(input.v.items) : IsEntryWire(input.v.items[i]))
       => /\ IsOk(output)
          /\ Len(output.val.ids) = Len(input.v.items)
          /\ \A i \in 1..Len(input.v.items) :
                EntryMatches(output.val.ids[i], input.v.items[i])

C2_Witness ==
    /\ call = "StreamReadReply"
    /\ IsBulk(input.v)
    /\ Len(input.v.items) = 2
    /\ \A i \in 1..2 :
          IsKeyRowWire(input.v.items[i]) /\ Len(input.v.items[i].items[2].items) = 2
    /\ input.v.items[1].items[1].s # input.v.items[2].items[1].s
    /\ input.v.items[1].items[2].items[1] # input.v.items[1].items[2].items[2]
    /\ IsOk(output)
    /\ Len(output.val.keys) = 2
    /\ Len(output.val.keys[1].ids) = 2
    /\ Len(output.val.keys[2].ids) = 2

\* C3: for every reply kind, a wire value of the wrong top-level kind (an
\* integer, a bulk string or nil where a sequence is expected) decodes to an
\* error, never to an Ok result and never to a panic.
C3_WrongTopLevelKindIsError ==
    (call \in DecodeTargets /\ input.v.kind \in {"Int", "Data", "Nil"})
        => output.st = "Err"

\* C4: every decode either succeeds with a complete record or fails with an
\* error; none panics on a wire value whose nesting is shorter than expected
\* (a pending-summary consumer row with fewer than two elements, a
\* pending-detail row with no tuple).
C4_DecodeNeverPanics ==
    call \in DecodeTargets => output.st \in {"Ok", "Err"}

\* C5: a nested position that expects a sequence and holds a value of another
\* kind makes the whole decode fail: a stream-info reply whose first-entry or
\* last-entry is a bulk string, an integer or nil decodes to an error, not to
\* a record with a default entry in that position.
C5_NestedWrongKindIsError ==
    (/\ call = "StreamInfoStreamsReply"
     /\ IsFieldMapWire(input.v)
     /\ \E key \in {F_first_entry, F_last_entry} :
           HasWireField(input.v, key) /\ ~IsBulk(WireField(input.v, key)))
    => output.st = "Err"

\* The number a decimal string stands for, if it is the decimal form of one.
IsDecimal(s) == \E n \in 0..MaxCount : Display(n) = s
DecimalValue(s) == CHOOSE n \in 0..MaxCount : Display(n) = s

\* (count, start id, end id, [[consumer name, pending-count string], ...])
IsPendingSummaryWire(v) ==
    /\ IsBulk(v)
    /\ Len(v.items) = 4
    /\ v.items[1].kind = "Int"
    /\ IsData(v.items[2])
    /\ IsData(v.items[3])
    /\ IsBulk(v.items[4])
    /\ \A i \in 1..Len(v.items[4].items) :
          LET row == v.items[4].items[i]
          IN  IsBulk(row) /\ Len(row.items) = 2
              /\ IsData(row.items[1]) /\ IsData(row.items[2])

\* C6: a pending-summary 4-tuple decodes to a record with its count, start id
\* and end id and one consumer per [name, count string] pair in wire order:
\* the name is the first element, the pending count the number the second
\* element spells, or 0 when it spells none (the decode still succeeds), and
\* the idle time is 0.
C6_PendingSummary ==
    (call = "StreamPendingReply" /\ IsPendingSummaryWire(input.v)) =>
        /\ IsOk(output)
        /\ output.val.count = input.v.items[1].n
        /\ output.val.start_id = input.v.items[2].s
        /\ output.val.end_id = input.v.items[3].s
        /\ Len(output.val.consumers) = Len(input.v.items[4].items)
        /\ \A i \in 1..Len(input.v.items[4].items) :
              LET row == input.v.items[4].items[i]
                  c == output.val.consumers[i]
              IN  /\ c.name = row.items[1].s
                  /\ c.pending = IF IsDecimal(row.items[2].s)
                                 THEN DecimalValue(row.items[2].s) ELSE 0
                  /\ c.idle = 0

C6_Witness ==
    /\ call = "StreamPendingReply"
    /\ IsPendingSummaryWire(input.v)
    /\ Len(input.v.items[4].items) = 2
    /\ input.v.items[4].items[1].items[2].s = <<"x">>
    /\ input.v.items[4].items[2].items[2].s = <<"1", "0">>
    /\ IsOk(output)
    /\ output.val.consumers[1].pending = 0
    /\ output.val.consumers[2].pending = 10

\* A stream-info mapping whose known fields, where present, hold a value of
\* their own kind.
IsStreamInfoWire(v) ==
    /\ IsFieldMapWire(v)
    /\ HasWireField(v, F_last_generated_id) => IsData(WireField(v, F_last_generated_id))
    /\ \A key \in {F_radix_tree_nodes, F_groups, F_length} :
          HasWireField(v, key) =>
              \/ WireField(v, key).kind = "Int"
              \/ IsData(WireField(v, key)) /\ IsDecimal(WireField(v, key).s)
    /\ \A key \in {F_first_entry, F_last_entry} :
          HasWireField(v, key) => IsEntryWire(WireField(v, key))

\* What a field of the record is expected to hold.
ExpectedString(v, key) ==
    IF HasWireField(v, key) THEN WireField(v, key).s ELSE <<>>

ExpectedNumber(v, key) ==
    IF ~HasWireField(v, key) THEN 0
    ELSE IF WireField(v, key).kind = "Int" THEN WireField(v, key).n
    ELSE DecimalValue(WireField(v, key).s)

EntryAsExpected(rec, v, key) ==
    IF HasWireField(v, key) THEN EntryMatches(rec, WireField(v, key))
    ELSE rec.id = <<>> /\ DOMAIN rec.map = {}

\* C7: a stream-info mapping from which any of the six known fields are
\* absent decodes successfully; an absent field keeps its zero/default value,
\* a present field holds its wire value, unknown fields are ignored.
C7_StreamInfoAbsentFields ==
    (call = "StreamInfoStreamsReply" /\ IsStreamInfoWire(input.v)) =>
        /\ IsOk(output)
        /\ output.val.last_generated_id = ExpectedString(input.v, F_last_generated_id)
        /\ output.val.radix_tree_keys = ExpectedNumber(input.v, F_radix_tree_nodes)
        /\ output.val.groups = ExpectedNumber(input.v, F_groups)
        /\ output.val.length = ExpectedNumber(input.v, F_length)
        /\ EntryAsExpected(output.val.first_entry, input.v, F_first_entry)
        /\ EntryAsExpected(output.val.last_entry, input.v, F_last_entry)

C7_Witness ==
    /\ call = "StreamInfoStreamsReply"
    /\ IsStreamInfoWire(input.v)
    /\ ~HasWireField(input.v, F_groups)
    /\ \A key \in {F_last_generated_id, F_radix_tree_nodes, F_length,
                   F_first_entry, F_last_entry, other} : HasWireField(input.v, key)
    /\ IsOk(output)
    /\ output.val.groups = 0
    /\ output.val.length = 105
    /\ output.val.first_entry.id = Id11

(***************************************************************************)
(* Properties of field lookup on a decoded entry.                          *)
(***************************************************************************)
\* What the conversion of wire value x to type T is expected to give.
ExpectedConversion(x, T) ==
    CASE T = T_String -> IF IsData(x) THEN Some(x.s) ELSE None
      [] T = T_usize ->
            IF x.kind = "Int" THEN Some(x.n)
            ELSE IF IsData(x) /\ IsDecimal(x.s) THEN Some(DecimalValue(x.s))
            ELSE None
      [] T = T_Value -> Some(x)

\* C12: on an entry decoded from a wire mapping, get gives None when the
\* field is not in the mapping or its value does not convert to the type
\* asked for, and the converted value otherwise; find gives the stored value;
\* contains_key is true exactly for the fields of the mapping; len is the
\* number of distinct fields of the mapping.  No lookup raises.
C12_FieldLookup ==
    call \in {"StreamId::get", "StreamId::find", "StreamId::contains_key",
              "StreamId::len"} =>
        LET fm == input.wire.items[2]
            present == HasWireField(fm, input.key)
        IN  /\ call = "StreamId::get" =>
                  output = IF present
                           THEN ExpectedConversion(WireField(fm, input.key), input.T)
                           ELSE None
            /\ call = "StreamId::find" =>
                  output = IF present THEN Some(WireField(fm, input.key)) ELSE None
            /\ call = "StreamId::contains_key" => output = present
            /\ call = "StreamId::len" => output = Cardinality(WireFields(fm))

C12_Witness ==
    /\ call = "StreamId::get"
    /\ input.key = FieldName
    /\ input.T = T_usize
    /\ HasWireField(input.wire.items[2], FieldName)
    /\ WireField(input.wire.items[2], FieldName) = Value_Data(<<"x">>)
    /\ input.self.map[FieldName] = Value_Data(<<"x">>)
    /\ output = None

(***************************************************************************)
(* Properties of the pending-detail decoder.                               *)
(***************************************************************************)
\* One (id, consumer, idle-ms, delivery-count) row on the wire.
IsPendingDetailRow(r) ==
    /\ IsBulk(r)
    /\ Len(r.items) = 4
    /\ IsData(r.items[1])
    /\ IsData(r.items[2])
    /\ r.items[3].kind = "Int"
    /\ r.items[4].kind = "Int"

\* C13: a pending-detail reply of K (id, consumer, idle-ms, delivery-count)
\* rows decodes to K StreamPendingId records in wire order, and the i-th
\* record holds the id, consumer, idle time and delivery count of the i-th
\* row and of no other row.
C13_PendingDetail ==
    (/\ call = "StreamPendingCountReply"
     /\ IsBulk(input.v)
     /\ \A i \in 1..Len(input.v.items) : IsPendingDetailRow(input.v.items[i]))
    => /\ IsOk(output)
       /\ Len(output.val.ids) = Len(input.v.items)
       /\ \A i \in 1..Len(input.v.items) :
             output.val.ids[i] =
                [id |-> input.v.items[i].items[1].s,
                 consumer |-> input.v.items[i].items[2].s,
                 last_delivered_ms |-> input.v.items[i].items[3].n,
                 times_delivered |-> input.v.items[i].items[4].n]

C13_Witness ==
    /\ call = "StreamPendingCountReply"
    /\ IsBulk(input.v)
    /\ Len(input.v.items) = 2
    /\ \A i \in 1..2 : IsPendingDetailRow(input.v.items[i])
    /\ input.v.items[1].items[1].s = Id41
    /\ input.v.items[2].items[1].s = Id11
    /\ IsOk(output)
    /\ output.val.ids[1].id = Id41
    /\ output.val.ids[1].times_delivered = 2
    /\ output.val.ids[2].id = Id11
    /\ output.val.ids[2].times_delivered = 1
    /\ output.val.ids[2].last_delivered_ms = 105

=============================================================================
